---- MODULE Spec2Model ----
(***************************************************************************)
(* Model of the Lua bundler build/scripts/build_single_lua_release.py and  *)
(* of the version stamper build/scripts/stamp_harness_version.py.          *)
(*                                                                         *)
(* Text is a sequence of tokens.  A token stands for a piece of text that  *)
(* the regular expressions of the scripts cannot tell apart:               *)
(*   nl   the newline character                                            *)
(*   sp   a blank or tab (whitespace other than newline)                   *)
(*   dd   the two characters "--"                                          *)
(*   lb   the two characters "[["        rb   the two characters "]]"      *)
(*   req  require("<module a>"), the part REQUIRE_RE captures              *)
(*   x    any other run of non-blank characters holding none of the above  *)
(*        and no double quote                                              *)
(*   beg / end   the body " ==== BEGIN: <a> ====" / " ==== END: <a> ===="  *)
(*        of a marker line for file a;  ban  the body of the banner line   *)
(*   hv   HARNESS_VERSION = "<a>" spelled exactly as stamp_version writes  *)
(*   hvx  an assignment of version a in another spelling the pattern       *)
(*        still matches (HARNESS_VERSION="<a>")                            *)
(*   log  the text "if log and log.info"                                   *)
(***************************************************************************)
EXTENDS Integers, Sequences, FiniteSets, TLC

Tok(k, a) == [k |-> k, a |-> a]
NL == Tok("nl", 0)
SP == Tok("sp", 0)
DD == Tok("dd", 0)
LB == Tok("lb", 0)
RB == Tok("rb", 0)
XX == Tok("x", 0)
LOG == Tok("log", 0)
REQ(m) == Tok("req", m)
BEG(f) == Tok("beg", f)
END(f) == Tok("end", f)
BAN(v) == Tok("ban", v)
HV(v) == Tok("hv", v)
HVX(v) == Tok("hvx", v)

\* \s of the regular expressions
IsSpace(t) == t.k \in {"nl", "sp"}

MinOf(S) == CHOOSE m \in S : \A n \in S : m <= n
MaxOf(S) == CHOOSE m \in S : \A n \in S : m >= n

\* the first position >= i of s whose element does not satisfy P, Len(s)+1 if none
SkipWhile(s, i, P(_)) ==
  MinOf({j \in i..(Len(s) + 1) : j = Len(s) + 1 \/ ~P(s[j])})

RECURSIVE Join(_)
Join(lines) == IF lines = <<>> THEN <<>> ELSE Head(lines) \o Join(Tail(lines))

\* str.splitlines(True): the lines of a text, each keeping its newline
RECURSIVE SplitFrom(_, _)
SplitFrom(text, s) ==
  IF s > Len(text) THEN <<>>
  ELSE LET e == SkipWhile(text, s, LAMBDA t : t # NL)
           stop == IF e > Len(text) THEN Len(text) ELSE e
       IN <<SubSeq(text, s, stop)>> \o SplitFrom(text, stop + 1)

SplitLinesKeep(text) == SplitFrom(text, 1)

\* str.splitlines(): the lines of a text without their newlines
SplitLines(text) ==
  LET ls == SplitLinesKeep(text)
  IN [i \in 1..Len(ls) |->
        IF ls[i][Len(ls[i])] = NL THEN SubSeq(ls[i], 1, Len(ls[i]) - 1) ELSE ls[i]]

\* BLANK_RE = ^\s*$
is_blank(line) == \A i \in 1..Len(line) : IsSpace(line[i])

\* COMMENT_RE = ^\s*--
is_comment(line) ==
  LET p == SkipWhile(line, 1, IsSpace)
  IN p <= Len(line) /\ line[p] = DD

\* REQUIRE_RE = ^\s*require\(["']([A-Za-z0-9_./-]+)["']\)\s*$ ; 0 stands for None
is_require(line) ==
  LET p == SkipWhile(line, 1, IsSpace)
  IN IF /\ p <= Len(line)
        /\ line[p].k = "req"
        /\ \A i \in (p + 1)..Len(line) : IsSpace(line[i])
     THEN line[p].a
     ELSE 0

\* "--[[" in line
HasBlockOpen(line) == \E i \in 1..(Len(line) - 1) : line[i] = DD /\ line[i + 1] = LB

\* "]]" not in line
NoBlockClose(line) == \A i \in 1..Len(line) : line[i] # RB

\* Positions are 1-based: the value is the Python index plus one.
_header_end_index(lines) ==
  LET i1 == SkipWhile(lines, 1, is_blank)
      i2 == IF i1 <= Len(lines) /\ HasBlockOpen(lines[i1])
            THEN LET c == SkipWhile(lines, i1, NoBlockClose)
                 IN IF c <= Len(lines) THEN c + 1 ELSE c
            ELSE i1
      i3 == SkipWhile(lines, i2, is_blank)
      i4 == SkipWhile(lines, i3, is_comment)
  IN SkipWhile(lines, i4, is_blank)

\* strip_initial_requires dropping the first line of the block only
strip_first_require(content) ==
  LET lines == SplitLinesKeep(content)
      i == _header_end_index(lines)
      j == SkipWhile(lines, i, LAMBDA l : is_require(l) # 0 \/ is_blank(l))
  IN IF j > i
     THEN Join(SubSeq(lines, 1, i - 1) \o SubSeq(lines, i + 1, Len(lines)))
     ELSE content

strip_initial_requires(content) ==
  LET lines == SplitLinesKeep(content)
      i == _header_end_index(lines)
      j == SkipWhile(lines, i, LAMBDA l : is_require(l) # 0 \/ is_blank(l))
  IN IF j > i
     THEN Join(SubSeq(lines, 1, i - 1) \o SubSeq(lines, j, Len(lines)))
     ELSE content

\* the loop of read_requires from position idx on
RECURSIVE CollectRequires(_, _)
CollectRequires(lines, idx) ==
  IF idx > Len(lines) THEN <<>>
  ELSE IF is_blank(lines[idx]) THEN CollectRequires(lines, idx + 1)
  ELSE IF is_require(lines[idx]) = 0 THEN <<>>
  ELSE <<is_require(lines[idx])>> \o CollectRequires(lines, idx + 1)

\* read_requires of a file that can be read (text) or cannot (readable = FALSE)
read_requires(readable, text) ==
  IF ~readable THEN <<>>
  ELSE LET lines == SplitLines(text)
       IN CollectRequires(lines, _header_end_index(lines))

\* str.rstrip()
rstrip(text) ==
  LET keep == {i \in 1..Len(text) : ~IsSpace(text[i])}
  IN IF keep = {} THEN <<>> ELSE SubSeq(text, 1, MaxOf(keep))

\* The safety net of write_output, re.sub of the pattern
\*   (?m)^(?!\s*--)\s*require\(["']([A-Za-z0-9_./-]+)["']\)\s*(?:--.*)?\r?\n
\* \s also matches newlines, so the leading \s* runs over blank lines before
\* the require and the trailing \s* over blank lines after it, and over the
\* newline that ends the require line when a comment line follows.
\* SafetyMatchEnd is the position after a match starting at s, 0 if none.
SafetyMatchEnd(text, s) ==
  LET n == Len(text)
      p == SkipWhile(text, s, IsSpace)
      w == SkipWhile(text, p + 1, IsSpace)
      e == SkipWhile(text, w, LAMBDA t : t # NL)
      nls == {i \in (p + 1)..(w - 1) : text[i] = NL}
  IN IF ~(s = 1 \/ text[s - 1] = NL) THEN 0
     ELSE IF p > n \/ text[p].k # "req" THEN 0
     ELSE IF w <= n /\ text[w] = DD /\ e <= n THEN e + 1
     ELSE IF nls # {} THEN MaxOf(nls) + 1
     ELSE 0

\* re.sub(pattern, "", text): leftmost matches, one after the other, removed
RECURSIVE SafetySubFrom(_, _)
SafetySubFrom(text, s) ==
  IF s > Len(text) THEN <<>>
  ELSE LET e == SafetyMatchEnd(text, s)
       IN IF e > 0 THEN SafetySubFrom(text, e)
          ELSE <<text[s]>> \o SafetySubFrom(text, s + 1)

SafetyNet(text) == SafetySubFrom(text, 1)

\* stamp_version's pattern, re.MULTILINE:  ^\s*HARNESS_VERSION\s*=\s*".*?"\s*$
\* The end (exclusive) of a match whose closing quote is the one of token c:
\* the trailing \s* runs to the end of the text, or else stops before the last
\* newline of the whitespace that follows; 0 if text follows on the line.
StampTailEnd(text, c) ==
  LET w == SkipWhile(text, c + 1, IsSpace)
      nls == {i \in (c + 1)..(w - 1) : text[i] = NL}
  IN IF w > Len(text) THEN Len(text) + 1
     ELSE IF nls # {} THEN MaxOf(nls)
     ELSE 0

\* The end (exclusive) of the match starting at s, 0 if none.  The lazy ".*?"
\* takes the first closing quote on the line after which the tail matches.
StampMatchEnd(text, s) ==
  LET n == Len(text)
      p == SkipWhile(text, s, IsSpace)
      eol == SkipWhile(text, p, LAMBDA t : t # NL)
      closers == {c \in p..(eol - 1) :
                    text[c].k \in {"hv", "hvx"} /\ StampTailEnd(text, c) > 0}
  IN IF ~(s = 1 \/ text[s - 1] = NL) THEN 0
     ELSE IF p > n \/ text[p].k \notin {"hv", "hvx"} THEN 0
     ELSE IF closers = {} THEN 0
     ELSE StampTailEnd(text, MinOf(closers))

\* pattern.search(text): the start of the leftmost match, 0 if none
StampSearch(text) ==
  LET starts == {s \in 1..Len(text) : StampMatchEnd(text, s) > 0}
  IN IF starts = {} THEN 0 ELSE MinOf(starts)

\* pattern.sub('HARNESS_VERSION = "<version>"', text, count=1)
StampSub(text, version) ==
  LET s == StampSearch(text)
  IN IF s = 0 THEN text
     ELSE SubSeq(text, 1, s - 1) \o <<HV(version)>>
            \o SubSeq(text, StampMatchEnd(text, s), Len(text))

\* lines[0].lstrip().startswith("if log and log.info")
StartsWithLog(line) ==
  LET p == SkipWhile(line, 1, IsSpace)
  IN p <= Len(line) /\ line[p] = LOG

\* Case 2 of stamp_version: the assignment inserted as a line near the top
StampInsert(text, version) ==
  LET lines == SplitLinesKeep(text)
      idx == IF lines # <<>> /\ StartsWithLog(lines[1]) THEN 1 ELSE 0
  IN Join(SubSeq(lines, 1, idx)) \o <<HV(version), NL>>
       \o Join(SubSeq(lines, idx + 1, Len(lines)))

\* The text stamp_version leaves in an existing dist file.
stamp_version(text, version) ==
  IF StampSearch(text) # 0 /\ StampSub(text, version) # text
  THEN StampSub(text, version)
  ELSE StampInsert(text, version)


(***************************************************************************)
(* Files.  The .lua files that can lie under src_dir are numbered          *)
(* 1..MaxFiles.  Odd numbers lie in src/, even numbers in src/a/; files    *)
(* 2k-1 and 2k carry the same file name, and the first name is             *)
(* "_header.lua":                                                          *)
(*   1 src/_header.lua   2 src/a/_header.lua   3 src/m2.lua   4 src/a/m2.lua *)
(* A module identifier m is the one that names file m relative to src      *)
(* ("m2" for file 3, "a.m2" for file 4).  Module roots: 0 is src, 1 is     *)
(* src/a.  0 stands for None where a path is expected.                     *)
(***************************************************************************)
MaxFiles == 3

FileIds == 1..MaxFiles
InSubdir(f) == f % 2 = 0
NameOf(f) == (f + 1) \div 2

\* path components in string order: "_header.lua" < "a" < "m2.lua" < "m3.lua" ...
NameRank(n) == IF n = 1 THEN 1 ELSE n + 1
Parts(f) == IF InSubdir(f) THEN <<2, NameRank(NameOf(f))>> ELSE <<NameRank(NameOf(f))>>

\* str(hp).endswith("_header.lua")
EndsWithHeader(f) == NameOf(f) = 1

\* tuple order of Python: Path objects compare by their parts
PartsLess(a, b) ==
  \/ \E i \in 1..Len(a) : /\ i <= Len(b)
                          /\ a[i] < b[i]
                          /\ \A j \in 1..(i - 1) : a[j] = b[j]
  \/ Len(a) < Len(b) /\ \A j \in 1..Len(a) : a[j] = b[j]

\* key_fn of topo_sort: (str(p.parent), str(p)); "src" sorts before "src/a",
\* and inside one directory the full paths sort as the file names do
key_fn(f) == <<IF InSubdir(f) THEN 1 ELSE 0, NameRank(NameOf(f))>>

KeyLess(f, g) == PartsLess(key_fn(f), key_fn(g))
DiscLess(f, g) == PartsLess(Parts(f), Parts(g))

\* list.sort(key=key_fn) / sorted(..., key=key_fn): a stable insertion sort
RECURSIVE InsertByKey(_, _)
InsertByKey(x, sorted) ==
  IF sorted = <<>> THEN <<x>>
  ELSE IF KeyLess(x, Head(sorted)) THEN <<x>> \o sorted
  ELSE <<Head(sorted)>> \o InsertByKey(x, Tail(sorted))

RECURSIVE SortByKey(_)
SortByKey(seq) ==
  IF seq = <<>> THEN <<>>
  ELSE InsertByKey(seq[Len(seq)], SortByKey(SubSeq(seq, 1, Len(seq) - 1)))

\* sorted(paths): the same sort by the order of Path objects
RECURSIVE InsertByPath(_, _)
InsertByPath(x, sorted) ==
  IF sorted = <<>> THEN <<x>>
  ELSE IF DiscLess(x, Head(sorted)) THEN <<x>> \o sorted
  ELSE <<Head(sorted)>> \o InsertByPath(x, Tail(sorted))

RECURSIVE SortByPath(_)
SortByPath(seq) ==
  IF seq = <<>> THEN <<>>
  ELSE InsertByPath(seq[Len(seq)], SortByPath(SubSeq(seq, 1, Len(seq) - 1)))

\* the elements of a set of numbers as a sequence
RECURSIVE SetToSeq(_)
SetToSeq(S) == IF S = {} THEN <<>>
               ELSE LET m == MinOf(S) IN <<m>> \o SetToSeq(S \ {m})

Range(seq) == {seq[i] : i \in 1..Len(seq)}

\* discover_sources: sorted(src_dir.rglob("*.lua")) minus the excluded files.
\* exclude stands for exclude_globs = ["src/**/_*.lua"], the pattern of the
\* script's example configuration.
discover_sources(onDisk, exclude) ==
  LET excluded == IF exclude THEN {f \in onDisk : NameOf(f) = 1} ELSE {}
      files == SortByPath(SetToSeq(onDisk))
  IN SelectSeq(files, LAMBDA f : f \notin excluded)

\* module_to_path: the first root under which the module's file exists
RootPath(root, mod) ==
  IF root = 0 THEN mod
  ELSE IF InSubdir(mod) THEN 0 ELSE mod + 1

RECURSIVE module_to_path(_, _, _)
module_to_path(mod, module_roots, onDisk) ==
  IF module_roots = <<>> THEN 0
  ELSE IF RootPath(Head(module_roots), mod) \in onDisk
       THEN RootPath(Head(module_roots), mod)
       ELSE module_to_path(mod, Tail(module_roots), onDisk)

\* the header search of main: the first prepend entry that exists and whose
\* name ends with "_header.lua"
RECURSIVE FindHeader(_, _)
FindHeader(prepend, onDisk) ==
  IF prepend = <<>> THEN 0
  ELSE IF Head(prepend) \in onDisk /\ EndsWithHeader(Head(prepend))
       THEN Head(prepend)
       ELSE FindHeader(Tail(prepend), onDisk)

\* a file that requires the modules ms in its leading block, then holds code
RECURSIVE RequireLines(_)
RequireLines(ms) ==
  IF ms = <<>> THEN <<>> ELSE <<REQ(Head(ms)), NL>> \o RequireLines(Tail(ms))

Requiring(ms) == RequireLines(ms) \o <<XX, NL>>

\* the texts a file is drawn from in the runs of main (specification Spec)
DriverTexts == {Requiring(<<>>), Requiring(<<1>>), Requiring(<<MaxFiles>>)}

\* the bound on the require lines of a file in specification SpecTopo
MaxReqs == 2

\* the ascending sequences of at most MaxReqs distinct modules
ReqChoices ==
  {SetToSeq(S) : S \in {T \in SUBSET FileIds : Cardinality(T) <= MaxReqs}}

TopoTexts == {Requiring(ms) : ms \in ReqChoices}

\* the sequences of at most two modules, repeats included, over the first two
\* files and the last one
ReqSeqs ==
  LET ms == {1, 2, MaxFiles}
  IN {<<>>} \cup {<<m>> : m \in ms} \cup {<<m, n>> : m \in ms, n \in ms}

\* the texts a file is drawn from in specification SpecGraph
GraphTexts == {Requiring(ms) : ms \in ReqSeqs}

\* read_requires is a function of the text alone: its values on the texts that
\* files are drawn from are tabulated once, and looked up by build_graph
RequiresTable ==
  {<<t, read_requires(TRUE, t)>> : t \in DriverTexts \cup TopoTexts \cup GraphTexts}

RequiresOf(readable, text) ==
  IF ~readable THEN read_requires(FALSE, text)
  ELSE IF \E p \in RequiresTable : p[1] = text
       THEN (CHOOSE p \in RequiresTable : p[1] = text)[2]
       ELSE read_requires(TRUE, text)

\* the inner loop of build_graph without the test of line 199
RECURSIVE GraphReqsDoubleCount(_, _, _, _, _, _, _)
GraphReqsDoubleCount(f, reqs, g, file_set, module_roots, onDisk, hdr) ==
  IF reqs = <<>> THEN g
  ELSE LET dep_path == module_to_path(Head(reqs), module_roots, onDisk)
           g2 == IF /\ dep_path # 0
                    /\ dep_path \in file_set
                    /\ (hdr = 0 \/ dep_path # hdr)
                 THEN [edges |-> [g.edges EXCEPT ![dep_path] = @ \cup {f}],
                       indeg |-> [g.indeg EXCEPT ![f] = @ + 1]]
                 ELSE g
       IN GraphReqsDoubleCount(f, Tail(reqs), g2, file_set, module_roots, onDisk, hdr)

\* the inner loop of build_graph over the requires of file f
RECURSIVE GraphReqs(_, _, _, _, _, _, _)
GraphReqs(f, reqs, g, file_set, module_roots, onDisk, hdr) ==
  IF reqs = <<>> THEN g
  ELSE LET dep_path == module_to_path(Head(reqs), module_roots, onDisk)
           g2 == IF /\ dep_path # 0
                    /\ dep_path \in file_set
                    /\ (hdr = 0 \/ dep_path # hdr)
                    /\ f \notin g.edges[dep_path]
                 THEN [edges |-> [g.edges EXCEPT ![dep_path] = @ \cup {f}],
                       indeg |-> [g.indeg EXCEPT ![f] = @ + 1]]
                 ELSE g
       IN GraphReqs(f, Tail(reqs), g2, file_set, module_roots, onDisk, hdr)

\* the outer loop of build_graph over the files from position i on
RECURSIVE GraphFiles(_, _, _, _, _, _, _, _)
GraphFiles(fs, i, g, module_roots, onDisk, hdr, texts, unread) ==
  IF i > Len(fs) THEN g
  ELSE LET f == fs[i]
           g2 == IF hdr # 0 /\ f = hdr THEN g
                 ELSE GraphReqs(f, RequiresOf(f \notin unread, texts[f]), g,
                                Range(fs), module_roots, onDisk, hdr)
       IN GraphFiles(fs, i + 1, g2, module_roots, onDisk, hdr, texts, unread)

build_graph(fs, module_roots, hdr, onDisk, texts, unread) ==
  LET nodes == {f \in Range(fs) : hdr = 0 \/ f # hdr}
      g0 == [edges |-> [f \in nodes |-> {}], indeg |-> [f \in nodes |-> 0]]
  IN GraphFiles(fs, 1, g0, module_roots, onDisk, hdr, texts, unread)

\* the for loop of topo_sort over sorted(edges[u]) from position i on
RECURSIVE Relax(_, _, _)
Relax(vs, i, st) ==
  IF i > Len(vs) THEN st
  ELSE LET v == vs[i]
           d == st.indeg[v] - 1
           q2 == IF d = 0 THEN SortByKey(Append(st.q, v)) ELSE st.q
       IN Relax(vs, i + 1, [indeg |-> [st.indeg EXCEPT ![v] = d], q |-> q2])

\* the nodes in the order of edges.keys(): the order build_graph met them
KeysOrder(fs, E) == SelectSeq(fs, LAMBDA f : f \in DOMAIN E)

\* make_banner_comment, as a line of tokens
make_banner_comment(hasName, hasVersion) ==
  IF hasName /\ hasVersion THEN <<DD, BAN(3), NL>>
  ELSE IF hasName THEN <<DD, BAN(2), NL>>
  ELSE IF hasVersion THEN <<DD, BAN(1), NL>>
  ELSE <<>>

\* write_output passing the prepend files through strip_initial_requires
RECURSIVE PrependPartsStripped(_, _, _)
PrependPartsStripped(prepend, onDisk, texts) ==
  IF prepend = <<>> THEN <<>>
  ELSE (IF Head(prepend) \in onDisk
        THEN <<DD, BEG(Head(prepend)), NL>> \o strip_initial_requires(texts[Head(prepend)])
               \o <<NL, DD, END(Head(prepend)), NL, NL>>
        ELSE <<>>) \o PrependPartsStripped(Tail(prepend), onDisk, texts)

\* write_output: the block of the prepend files that exist
RECURSIVE PrependParts(_, _, _)
PrependParts(prepend, onDisk, texts) ==
  IF prepend = <<>> THEN <<>>
  ELSE (IF Head(prepend) \in onDisk
        THEN <<DD, BEG(Head(prepend)), NL>> \o texts[Head(prepend)]
               \o <<NL, DD, END(Head(prepend)), NL, NL>>
        ELSE <<>>) \o PrependParts(Tail(prepend), onDisk, texts)

\* write_output: one graph-ordered file between its markers
SourcePart(f, strip, texts) ==
  <<DD, BEG(f), NL>>
    \o rstrip(IF strip THEN strip_initial_requires(texts[f]) ELSE texts[f]) \o <<NL>>
    \o <<DD, END(f), NL, NL>>

RECURSIVE SourceParts(_, _, _)
SourceParts(order, strip, texts) ==
  IF order = <<>> THEN <<>>
  ELSE SourcePart(Head(order), strip, texts) \o SourceParts(Tail(order), strip, texts)

\* "".join(parts) of write_output
AssembledText(banner, prepend, order, strip, onDisk, texts) ==
  banner \o PrependParts(prepend, onDisk, texts) \o SourceParts(order, strip, texts)

\* the text write_output writes
FinalText(banner, prepend, order, strip, onDisk, texts) ==
  IF strip THEN SafetyNet(AssembledText(banner, prepend, order, strip, onDisk, texts))
  ELSE AssembledText(banner, prepend, order, strip, onDisk, texts)


(***************************************************************************)
(* State.                                                                  *)
(*   pc        the statement of main (or of stamp_version's main) to run   *)
(*   exitcode  the exit code of the process, -1 while it runs              *)
(*   err       the fatal path taken, "" if none                            *)
(*   cfg       the configuration load_config returned                      *)
(*   onDisk, texts, unread   the .lua files under src_dir, their contents, *)
(*             and those whose read_text raises                            *)
(*   files, header, edges, indeg   locals of main and of build_graph       *)
(*   q, out    locals of topo_sort; out is the build order                 *)
(*   dist, distExists, written   the output file, and whether write_output *)
(*             has written it in this run                                  *)
(*   runs, lastVer   the stamp_version runs so far and the last version    *)
(***************************************************************************)
VARIABLES pc, exitcode, err, cfg, onDisk, texts, unread, files, header,
          edges, indeg, q, out, dist, distExists, written, runs, lastVer

vars == <<pc, exitcode, err, cfg, onDisk, texts, unread, files, header,
          edges, indeg, q, out, dist, distExists, written, runs, lastVer>>

fsVars == <<onDisk, texts, unread>>
graphVars == <<edges, indeg>>
stampVars == <<runs, lastVer>>

NoFiles == [f \in FileIds |-> <<>>]
NoGraph == [f \in {} |-> 0]
NoConfig == [strip_requires |-> FALSE, prepend |-> <<>>, module_roots |-> <<>>,
             exclude |-> FALSE]

\* ascending sequences of distinct files: the prepend lists that are drawn
PrependChoices == {SetToSeq(S) : S \in SUBSET FileIds}

Configs == [strip_requires : BOOLEAN, prepend : PrependChoices,
            module_roots : {<<0>>}, exclude : BOOLEAN]

Fatal(code, why) ==
  /\ pc' = "done"
  /\ exitcode' = code
  /\ err' = why

\* main, line 282: load_config
LoadConfig ==
  /\ pc = "load_config"
  /\ \E outcome \in {"missing", "unparsable", "nokeys", "ok"} :
       \/ /\ outcome = "missing"
          /\ Fatal(2, "ConfigMissing")
          /\ cfg' = cfg
       \/ /\ outcome = "unparsable"
          /\ Fatal(1, "ConfigInvalid")
          /\ cfg' = cfg
       \/ /\ outcome = "nokeys"
          /\ Fatal(2, "ConfigInvalid")
          /\ cfg' = cfg
       \/ /\ outcome = "ok"
          /\ \E c \in Configs : cfg' = c
          /\ pc' = "discover"
          /\ UNCHANGED <<exitcode, err>>
  /\ UNCHANGED <<fsVars, files, header, graphVars, q, out, dist, distExists,
                 written, stampVars>>

\* main without the return of lines 285-287
DiscoverSourcesNoCheck(Pool) ==
  /\ pc = "discover"
  /\ \E d \in SUBSET FileIds : \E u \in SUBSET d : \E t \in [d \ u -> Pool] :
       /\ onDisk' = d
       /\ unread' = u
       /\ texts' = [f \in FileIds |-> IF f \in d \ u THEN t[f] ELSE <<>>]
       /\ files' = discover_sources(d, cfg.exclude)
  /\ pc' = "find_header"
  /\ UNCHANGED <<exitcode, err, cfg, header, graphVars, q, out, dist, distExists,
                 written, stampVars>>

\* main, lines 283-287: discover_sources over the files that lie on disk
DiscoverSources(Pool) ==
  /\ pc = "discover"
  /\ \E d \in SUBSET FileIds : \E u \in SUBSET d : \E t \in [d \ u -> Pool] :
       /\ onDisk' = d
       /\ unread' = u
       /\ texts' = [f \in FileIds |-> IF f \in d \ u THEN t[f] ELSE <<>>]
       /\ files' = discover_sources(d, cfg.exclude)
  /\ IF files' = <<>>
     THEN Fatal(1, "NoSources")
     ELSE pc' = "find_header" /\ UNCHANGED <<exitcode, err>>
  /\ UNCHANGED <<cfg, header, graphVars, q, out, dist, distExists, written,
                 stampVars>>

\* main, lines 289-297
FindHeaderPath ==
  /\ pc = "find_header"
  /\ header' = FindHeader(cfg.prepend, onDisk)
  /\ pc' = "build_graph"
  /\ UNCHANGED <<exitcode, err, cfg, fsVars, files, graphVars, q, out, dist,
                 distExists, written, stampVars>>

\* main, line 299
BuildGraph ==
  /\ pc = "build_graph"
  /\ LET g == build_graph(files, cfg.module_roots, header, onDisk, texts, unread)
     IN edges' = g.edges /\ indeg' = g.indeg
  /\ pc' = "topo_init"
  /\ UNCHANGED <<exitcode, err, cfg, fsVars, files, header, q, out, dist,
                 distExists, written, stampVars>>

\* topo_sort starting from every node, whatever its indegree
TopoInitAll ==
  /\ pc = "topo_init"
  /\ q' = SortByKey(KeysOrder(files, indeg))
  /\ out' = <<>>
  /\ pc' = "topo_loop"
  /\ UNCHANGED <<exitcode, err, cfg, fsVars, files, header, graphVars, dist,
                 distExists, written, stampVars>>

\* topo_sort, lines 212-215
TopoInit ==
  /\ pc = "topo_init"
  /\ q' = SortByKey(SelectSeq(KeysOrder(files, indeg), LAMBDA f : indeg[f] = 0))
  /\ out' = <<>>
  /\ pc' = "topo_loop"
  /\ UNCHANGED <<exitcode, err, cfg, fsVars, files, header, graphVars, dist,
                 distExists, written, stampVars>>

\* topo_sort, lines 217-226: one turn of the while loop
TopoPop ==
  /\ pc = "topo_loop"
  /\ q # <<>>
  /\ LET u == Head(q)
         st == Relax(SortByKey(SetToSeq(edges[u])), 1,
                     [indeg |-> indeg, q |-> Tail(q)])
     IN /\ out' = Append(out, u)
        /\ indeg' = st.indeg
        /\ q' = st.q
  /\ UNCHANGED <<pc, exitcode, err, cfg, fsVars, files, header, edges, dist,
                 distExists, written, stampVars>>

\* topo_sort without the loop of lines 228-230
TopoFinishNoLeftover ==
  /\ pc = "topo_loop"
  /\ q = <<>>
  /\ pc' = "write_output"
  /\ UNCHANGED <<exitcode, err, cfg, fsVars, files, header, graphVars, q, out, dist,
                 distExists, written, stampVars>>

\* topo_sort appending the nodes left over in the order of key_fn
TopoFinishSorted ==
  /\ pc = "topo_loop"
  /\ q = <<>>
  /\ out' = out \o SortByKey(SelectSeq(KeysOrder(files, edges),
                                       LAMBDA p : p \notin Range(out)))
  /\ pc' = "write_output"
  /\ UNCHANGED <<exitcode, err, cfg, fsVars, files, header, graphVars, q, dist,
                 distExists, written, stampVars>>

\* topo_sort, lines 227-231: the nodes left over, in the order of edges.keys()
TopoFinish ==
  /\ pc = "topo_loop"
  /\ q = <<>>
  /\ out' = out \o SelectSeq(KeysOrder(files, edges), LAMBDA p : p \notin Range(out))
  /\ pc' = "write_output"
  /\ UNCHANGED <<exitcode, err, cfg, fsVars, files, header, graphVars, q, dist,
                 distExists, written, stampVars>>

\* the files write_output reads with read_text
FilesRead == {f \in Range(cfg.prepend) : f \in onDisk} \cup Range(out)

\* main, line 301: write_output.  A read_text that raises is not caught: the
\* process ends with a traceback and exit code 1, and nothing is written.
\* Projects: the outcomes <<name found, version found>> of
\* read_project_info_from_pyproject that are drawn.
WriteOutput(Projects) ==
  /\ pc = "write_output"
  /\ IF FilesRead \cap unread # {}
     THEN /\ Fatal(1, "ReadError")
          /\ UNCHANGED <<dist, distExists, written>>
     ELSE /\ \E proj \in Projects :
               dist' = FinalText(make_banner_comment(proj[1], proj[2]), cfg.prepend,
                                 out, cfg.strip_requires, onDisk, texts)
          /\ distExists' = TRUE
          /\ written' = TRUE
          /\ pc' = "report"
          /\ UNCHANGED <<exitcode, err>>
  /\ UNCHANGED <<cfg, fsVars, files, header, graphVars, q, out, stampVars>>

\* main, lines 302-305
Report ==
  /\ pc = "report"
  /\ exitcode' = 0
  /\ pc' = "done"
  /\ UNCHANGED <<err, cfg, fsVars, files, header, graphVars, q, out, dist,
                 distExists, written, stampVars>>

Init ==
  /\ pc = "load_config"
  /\ exitcode = -1
  /\ err = ""
  /\ cfg = NoConfig
  /\ onDisk = {}
  /\ texts = NoFiles
  /\ unread = {}
  /\ files = <<>>
  /\ header = 0
  /\ edges = NoGraph
  /\ indeg = NoGraph
  /\ q = <<>>
  /\ out = <<>>
  /\ dist = <<>>
  /\ distExists = FALSE
  /\ written = FALSE
  /\ runs = 0
  /\ lastVer = 0

Next ==
  \/ LoadConfig
  \/ DiscoverSources(DriverTexts)
  \/ FindHeaderPath
  \/ BuildGraph
  \/ TopoInit
  \/ TopoPop
  \/ TopoFinish
  \/ WriteOutput(BOOLEAN \X BOOLEAN)
  \/ Report

Spec == Init /\ [][Next]_vars

(***************************************************************************)
(* build_graph and topo_sort on every dependency graph within the bounds:  *)
(* main at line 299, with no prepend list, over files that each require up *)
(* to MaxReqs modules in their leading block.                              *)
(***************************************************************************)
InitTopo ==
  /\ pc = "build_graph"
  /\ exitcode = -1
  /\ err = ""
  /\ cfg = [strip_requires |-> FALSE, prepend |-> <<>>, module_roots |-> <<0>>,
            exclude |-> FALSE]
  /\ \E d \in (SUBSET FileIds) \ {{}} : \E t \in [d -> TopoTexts] :
       /\ onDisk = d
       /\ texts = [f \in FileIds |-> IF f \in d THEN t[f] ELSE <<>>]
       /\ files = discover_sources(d, FALSE)
  /\ unread = {}
  /\ header = 0
  /\ edges = NoGraph
  /\ indeg = NoGraph
  /\ q = <<>>
  /\ out = <<>>
  /\ dist = <<>>
  /\ distExists = FALSE
  /\ written = FALSE
  /\ runs = 0
  /\ lastVer = 0

NextTopo ==
  \/ BuildGraph
  \/ TopoInit
  \/ TopoPop
  \/ TopoFinish

SpecTopo == InitTopo /\ [][NextTopo]_vars

(***************************************************************************)
(* build_graph alone, over the module roots src and src/a in either order, *)
(* with and without exclude globs and a header in prepend.                 *)
(***************************************************************************)
GraphRoots == {<<0>>, <<0, 1>>, <<1, 0>>}

\* exclude globs and prepend list: none, the globs alone, the header alone
GraphSettings == {<<FALSE, <<>>>>, <<TRUE, <<>>>>, <<FALSE, <<1>>>>}

InitGraph ==
  /\ pc = "build_graph"
  /\ exitcode = -1
  /\ err = ""
  /\ \E roots \in GraphRoots : \E st \in GraphSettings :
       cfg = [strip_requires |-> FALSE, prepend |-> st[2], module_roots |-> roots,
              exclude |-> st[1]]
  /\ \E d \in (SUBSET FileIds) \ {{}} : \E t \in [d -> GraphTexts] :
       /\ onDisk = d
       /\ texts = [f \in FileIds |-> IF f \in d THEN t[f] ELSE <<>>]
  /\ files = discover_sources(onDisk, cfg.exclude)
  /\ files # <<>>
  /\ unread = {}
  /\ header = FindHeader(cfg.prepend, onDisk)
  /\ edges = NoGraph
  /\ indeg = NoGraph
  /\ q = <<>>
  /\ out = <<>>
  /\ dist = <<>>
  /\ distExists = FALSE
  /\ written = FALSE
  /\ runs = 0
  /\ lastVer = 0

NextGraph == BuildGraph

SpecGraph == InitGraph /\ [][NextGraph]_vars

(***************************************************************************)
(* write_output on every text within the bounds: main at line 301 with the *)
(* build order [src/m2.lua] (file 3).  Either there is no prepend list and *)
(* file 3 holds any text of at most MaxLines lines, or src/_header.lua     *)
(* (file 1) is prepended and holds any text of at most MaxLines - 2 lines, *)
(* with or without its last newline.                                       *)
(***************************************************************************)
MaxLines == 5

\* the lines texts are made of: blank, comment, require, require with a
\* trailing comment, code
TextLines == {<<NL>>, <<DD, XX, NL>>, <<REQ(1), NL>>, <<REQ(1), SP, DD, XX, NL>>,
              <<XX, NL>>}

RECURSIVE TextsOf(_, _)
TextsOf(Lines, n) ==
  IF n = 0 THEN {<<>>}
  ELSE LET shorter == TextsOf(Lines, n - 1)
       IN shorter \cup {l \o t : l \in Lines, t \in shorter}

\* texts with a block comment on one line or over several lines, and
\* indented requires
ExtraTexts ==
  {<<DD, LB, XX, RB, NL>> \o RequireLines(<<1, 2, 3>>) \o <<XX, NL>>,
   <<DD, LB, XX, RB, NL, DD, XX, NL>> \o RequireLines(<<1, 2, 3>>)
     \o <<XX, NL, REQ(1), NL>>,
   <<DD, LB, NL, REQ(1), NL, RB, NL>> \o RequireLines(<<1, 2, 3>>) \o <<XX, NL>>,
   <<DD, LB, NL, XX, RB, NL, DD, XX, NL, NL>> \o RequireLines(<<1, 2, 3>>)
     \o <<XX, SP, NL, NL>>,
   <<NL, SP, REQ(1), SP, NL, REQ(2), NL, REQ(3), NL, SP, XX, NL, XX, SP, REQ(1), NL>>,
   <<DD, LB, NL, XX, NL>> \o RequireLines(<<1, 2, 3>>)}

SourceTexts == TextsOf(TextLines, MaxLines) \cup ExtraTexts

WithoutLastNewline(t) ==
  IF t # <<>> /\ t[Len(t)] = NL THEN SubSeq(t, 1, Len(t) - 1) ELSE t

PrependTexts ==
  LET ts == TextsOf(TextLines, MaxLines - 2)
  IN ts \cup {WithoutLastNewline(t) : t \in ts}

InitText ==
  /\ pc = "write_output"
  /\ exitcode = -1
  /\ err = ""
  /\ \E strip \in BOOLEAN :
       \/ /\ cfg = [strip_requires |-> strip, prepend |-> <<>>,
                    module_roots |-> <<0>>, exclude |-> FALSE]
          /\ onDisk = {3}
          /\ header = 0
          /\ \E t \in SourceTexts : texts = [NoFiles EXCEPT ![3] = t]
       \/ /\ cfg = [strip_requires |-> strip, prepend |-> <<1>>,
                    module_roots |-> <<0>>, exclude |-> FALSE]
          /\ onDisk = {1, 3}
          /\ header = 1
          /\ \E t \in PrependTexts : \E b \in {<<XX, NL>>, <<XX, NL, REQ(1), NL>>} :
               texts = [NoFiles EXCEPT ![1] = t, ![3] = b]
  /\ unread = {}
  /\ files = SelectSeq(<<1, 3>>, LAMBDA f : f \in onDisk)
  /\ edges = [f \in {3} |-> {}]
  /\ indeg = [f \in {3} |-> 0]
  /\ q = <<>>
  /\ out = <<3>>
  /\ dist = <<>>
  /\ distExists = FALSE
  /\ written = FALSE
  /\ runs = 0
  /\ lastVer = 0

NextText == WriteOutput({<<FALSE, FALSE>>, <<TRUE, TRUE>>})

SpecText == InitText /\ [][NextText]_vars

(***************************************************************************)
(* stamp_harness_version.py run up to MaxRuns times on a dist file of at   *)
(* most MaxStampLines lines.                                               *)
(***************************************************************************)
MaxRuns == 2
MaxStampLines == 3
Versions == {1, 2}

\* the lines of a dist file: blank, comment, assignment as written by the
\* stamper, assignment in another spelling, the log.info banner, code
StampLines == {<<NL>>, <<DD, XX, NL>>, <<HV(1), NL>>, <<SP, HVX(2), SP, NL>>,
               <<LOG, XX, NL>>, <<XX, NL>>}

\* the assignments to HARNESS_VERSION in a text
CountVersionLines(text) ==
  Cardinality({i \in 1..Len(text) : text[i].k \in {"hv", "hvx"}})

\* main of stamp_harness_version.py, the version found: stamp_version
StampVersion ==
  /\ pc = "stamp"
  /\ runs < MaxRuns
  /\ \E v \in Versions :
       IF ~distExists
       THEN /\ Fatal(2, "DistMissing")
            /\ UNCHANGED <<dist, runs, lastVer>>
       ELSE /\ dist' = stamp_version(dist, v)
            /\ runs' = runs + 1
            /\ lastVer' = v
            /\ exitcode' = 0
            /\ UNCHANGED <<pc, err>>
  /\ UNCHANGED <<cfg, fsVars, files, header, graphVars, q, out, distExists, written>>

\* main of stamp_harness_version.py, read_version exits: no pyproject.toml or
\* no version in it
StampNoVersion ==
  /\ pc = "stamp"
  /\ runs < MaxRuns
  /\ Fatal(2, "VersionMissing")
  /\ UNCHANGED <<cfg, fsVars, files, header, graphVars, q, out, dist, distExists,
                 written, stampVars>>

InitStamp ==
  /\ pc = "stamp"
  /\ exitcode = -1
  /\ err = ""
  /\ cfg = NoConfig
  /\ onDisk = {}
  /\ texts = NoFiles
  /\ unread = {}
  /\ files = <<>>
  /\ header = 0
  /\ edges = NoGraph
  /\ indeg = NoGraph
  /\ q = <<>>
  /\ out = <<>>
  /\ \/ distExists = FALSE /\ dist = <<>>
     \/ /\ distExists = TRUE
        /\ dist \in {t \in TextsOf(StampLines, MaxStampLines) : CountVersionLines(t) <= 1}
  /\ written = FALSE
  /\ runs = 0
  /\ lastVer = 0

NextStamp ==
  \/ StampVersion
  \/ StampNoVersion

SpecStamp == InitStamp /\ [][NextStamp]_vars

(***************************************************************************)
(* Properties of topo_sort, checked under SpecTopo.                        *)
(***************************************************************************)
Nodes == DOMAIN edges
Sorted == pc = "write_output"
PosIn(seq, x) == MinOf({i \in 1..Len(seq) : seq[i] = x})

\* the nodes reachable from S along at most k edges
RECURSIVE ReachFrom(_, _)
ReachFrom(S, k) ==
  IF k = 0 THEN S
  ELSE LET R == ReachFrom(S, k - 1)
       IN R \cup UNION {edges[d] : d \in R}

OnCycle(f) == f \in ReachFrom(edges[f], Cardinality(Nodes))
Acyclic == \A f \in Nodes : ~OnCycle(f)

\* C1: when topo_sort returns, the build order has as many elements as the
\* graph has nodes and holds every node of the graph (so each exactly once),
\* whether the graph is acyclic, cyclic or has self-edges.
C1_Totality ==
  Sorted => /\ Len(out) = Cardinality(Nodes)
            /\ Range(out) = Nodes

\* three nodes, one of them on a cycle, and all three in the build order
C1_Witness ==
  /\ Sorted
  /\ Cardinality(Nodes) = 3
  /\ \E f \in Nodes : OnCycle(f)
  /\ \E f \in Nodes : ~OnCycle(f)
  /\ Len(out) = 3

\* C2: in an acyclic graph every dependency stands strictly before each of its
\* dependents in the build order.
C2_DependencyOrder ==
  (Sorted /\ Acyclic) =>
    \A d \in Nodes : \A f \in edges[d] : PosIn(out, d) < PosIn(out, f)

\* a chain of three files whose build order is not the order of key_fn
C2_Witness ==
  /\ Sorted
  /\ Acyclic
  /\ \E a \in Nodes, b \in Nodes, c \in Nodes :
       /\ b \in edges[a]
       /\ c \in edges[b]
       /\ out = <<a, b, c>>
       /\ KeyLess(c, a)

\* the nodes that never reached indegree 0
Leftover == {f \in Nodes : indeg[f] > 0}

\* C3: topo_sort ends on every graph: the while loop places a node at most
\* once, so it turns at most once per node; and when it returns, every node
\* that never reached indegree 0 stands after all nodes taken from the ready
\* sequence, and these nodes stand in discovery order (the order of files).
C3_CycleFallback ==
  /\ pc = "topo_loop" =>
       /\ Len(out \o q) = Cardinality(Range(out \o q))
       /\ Range(out \o q) \subseteq Nodes
       /\ \A f \in Range(out \o q) : indeg[f] = 0
  /\ Sorted =>
       /\ \A f \in Leftover : \A g \in Nodes \ Leftover : PosIn(out, g) < PosIn(out, f)
       /\ \A f \in Leftover : \A g \in Leftover :
            PosIn(files, f) < PosIn(files, g) => PosIn(out, f) < PosIn(out, g)

\* src/a/_header.lua and src/m2.lua require each other: both are placed, in
\* discovery order, which is not the order of key_fn
C3_Witness ==
  /\ Sorted
  /\ files = <<2, 3>>
  /\ edges[2] = {3}
  /\ edges[3] = {2}
  /\ out = <<2, 3>>
  /\ KeyLess(3, 2)

(***************************************************************************)
(* Properties of write_output, checked under SpecText.                     *)
(***************************************************************************)
Contains(text, part) ==
  \E i \in 0..(Len(text) - Len(part)) : SubSeq(text, i + 1, i + Len(part)) = part

HasRequire(text) == \E i \in 1..Len(text) : text[i].k = "req"

\* a line that is not a comment line and holds nothing but a require statement
\* and, optionally, a trailing comment
IsStrayRequireLine(line) ==
  LET p == SkipWhile(line, 1, LAMBDA t : t = SP)
      w == SkipWhile(line, p + 1, LAMBDA t : t = SP)
  IN /\ p <= Len(line)
     /\ line[p].k = "req"
     /\ (w > Len(line) \/ line[w] = NL \/ line[w] = DD)

WithoutStrayRequireLines(text) ==
  Join(SelectSeq(SplitLinesKeep(text), LAMBDA l : ~IsStrayRequireLine(l)))

\* the banner write_output put at the head of the bundle
BannerOf(text) ==
  IF Len(text) >= 3 /\ text[2].k = "ban" THEN SubSeq(text, 1, 3) ELSE <<>>

\* the text write_output joined, before the final pass
Assembled ==
  AssembledText(BannerOf(dist), cfg.prepend, out, cfg.strip_requires, onDisk, texts)

\* C4 (as stated): with strip-requires enabled the bundle is the assembled
\* text without its stray require lines: the final pass deletes those lines
\* and no other line, so every marker line is still there.
C4_OnlyStrayRequireLines ==
  (written /\ cfg.strip_requires) => dist = WithoutStrayRequireLines(Assembled)

PrependBlock(p) == <<DD, BEG(p), NL>> \o texts[p] \o <<NL, DD, END(p), NL, NL>>

\* C5 (as stated): for either value of the strip-requires flag, the bundle
\* holds every existing prepend file in full between its markers.
C5_PrependUnmodified ==
  written => \A i \in 1..Len(cfg.prepend) :
               cfg.prepend[i] \in onDisk => Contains(dist, PrependBlock(cfg.prepend[i]))

\* C5 (amended): the bundle holds an existing prepend file in full between
\* its markers when strip-requires is disabled, and when it is enabled and
\* the file holds no require statement; the leading block of a prepend file
\* is never stripped.
C5_PrependUnmodifiedUnlessRequire ==
  written => \A i \in 1..Len(cfg.prepend) :
               (/\ cfg.prepend[i] \in onDisk
                /\ (~cfg.strip_requires \/ ~HasRequire(texts[cfg.prepend[i]])))
               => Contains(dist, PrependBlock(cfg.prepend[i]))

\* a prepend file that starts with a require statement is in the bundle in
\* full: strip-requires is disabled
C5_Witness ==
  /\ written
  /\ ~cfg.strip_requires
  /\ \E i \in 1..Len(cfg.prepend) :
       /\ cfg.prepend[i] \in onDisk
       /\ texts[cfg.prepend[i]] # <<>>
       /\ Head(texts[cfg.prepend[i]]).k = "req"
       /\ Contains(dist, PrependBlock(cfg.prepend[i]))

\* the lines of a file, the start of its leading block and the end of it
LinesOf(f) == SplitLinesKeep(texts[f])
BlockStart(f) == _header_end_index(LinesOf(f))
BlockEnd(f) ==
  SkipWhile(LinesOf(f), BlockStart(f), LAMBDA l : is_require(l) # 0 \/ is_blank(l))
HeaderLines(f) == SubSeq(LinesOf(f), 1, BlockStart(f) - 1)
RestLines(f) == SubSeq(LinesOf(f), BlockEnd(f), Len(LinesOf(f)))
ThreeRequires(f) ==
  Cardinality({i \in BlockStart(f)..(BlockEnd(f) - 1) : is_require(LinesOf(f)[i]) # 0}) = 3

\* the unit of a file whose leading block is taken out and nothing else
StrippedUnit(f) ==
  <<DD, BEG(f), NL>> \o rstrip(Join(HeaderLines(f) \o RestLines(f)))
    \o <<NL, DD, END(f), NL, NL>>

\* C6 (as stated): with strip-requires enabled, the unit of a graph-ordered
\* file whose leading block is exactly three require statements is the
\* header lines and the lines after the block, unchanged, with the trailing
\* whitespace replaced by one newline.
C6_StripCorrect ==
  (written /\ cfg.strip_requires) =>
    \A f \in Range(out) : ThreeRequires(f) => Contains(dist, StrippedUnit(f))

\* C6 (amended): the same, for a file none of whose header lines and lines
\* after the block is a stray require line.
C6_StripCorrectNoStray ==
  (written /\ cfg.strip_requires) =>
    \A f \in Range(out) :
      (/\ ThreeRequires(f)
       /\ \A l \in Range(HeaderLines(f) \o RestLines(f)) : ~IsStrayRequireLine(l))
      => Contains(dist, StrippedUnit(f))

\* a comment line, three require statements and a code line: the bundle holds
\* the comment line and the code line
C6_Witness ==
  /\ written
  /\ cfg.strip_requires
  /\ \E f \in Range(out) :
       /\ ThreeRequires(f)
       /\ HeaderLines(f) # <<>>
       /\ RestLines(f) # <<>>
       /\ \A l \in Range(HeaderLines(f) \o RestLines(f)) : ~IsStrayRequireLine(l)
       /\ Contains(dist, StrippedUnit(f))

(***************************************************************************)
(* Properties of main, checked under Spec.                                 *)
(***************************************************************************)
GraphBuilt == pc \in {"topo_init", "topo_loop", "write_output", "report"} \/ written

\* the prepend files write_output inlines
Inlined == {cfg.prepend[i] : i \in 1..Len(cfg.prepend)} \cap onDisk

\* C7 (as stated): the nodes of the graph are the discovered files without
\* the prepend files; no file inlined as a prepend file is a node of the
\* graph, an element of the build order or an endpoint of an edge.
C7_PrependNotInGraph ==
  GraphBuilt =>
    /\ DOMAIN edges = Range(files) \ Inlined
    /\ Range(out) \cap Inlined = {}
    /\ \A d \in DOMAIN edges : edges[d] \cap Inlined = {}

\* C8 (as stated): a discovered file that cannot be read does not end the
\* run: once discovery has found files, the run ends with the artifact
\* written and exit code 0.
C8_UnreadableDoesNotAbort ==
  (pc = "done" /\ files # <<>> /\ Range(files) \cap unread # {}) =>
    (written /\ exitcode = 0)

ConfigErrors == {"ConfigMissing", "ConfigInvalid"}

\* C9: a configuration that is missing, unparsable or without a required key
\* ends the run with a non-zero exit code before discovery; a discovery that
\* finds no file ends it with a non-zero exit code; in both cases no graph is
\* built, nothing is scheduled and no artifact is written; and exit code 0
\* is returned only after write_output has written the artifact.
C9_FatalPaths ==
  /\ err \in ConfigErrors =>
       /\ pc = "done"
       /\ exitcode > 0
       /\ onDisk = {}
       /\ files = <<>>
  /\ (pc \notin {"load_config", "discover"} /\ files = <<>>) =>
       /\ pc = "done"
       /\ exitcode > 0
       /\ edges = NoGraph
       /\ indeg = NoGraph
       /\ q = <<>>
       /\ out = <<>>
       /\ ~written
       /\ ~distExists
       /\ dist = <<>>
  /\ exitcode = 0 => (written /\ pc = "done")

\* files lie on disk, the exclude globs drop them all, and the run has ended
\* with exit code 1 and nothing written
C9_Witness ==
  /\ pc = "done"
  /\ err = "NoSources"
  /\ exitcode = 1
  /\ onDisk # {}
  /\ files = <<>>
  /\ ~written

(***************************************************************************)
(* Properties of stamp_version, checked under SpecStamp.                   *)
(***************************************************************************)
\* C10 (as stated): after any sequence of runs of stamp_version over a bundle
\* that held at most one assignment to HARNESS_VERSION, runs with the same
\* version included, the bundle holds exactly one such line.
C10_OneVersionLine ==
  runs >= 1 => CountVersionLines(dist) = 1

(***************************************************************************)
(* More properties of topo_sort, checked under SpecTopo.                   *)
(***************************************************************************)
\* C11 (as stated): when topo_sort returns, every node the ready sequence
\* did not place lies on a cycle of edges, and every node that lies on no
\* cycle stands after all of its dependencies.
C11_OnlyCycleMembers ==
  Sorted =>
    /\ \A f \in Leftover : OnCycle(f)
    /\ \A f \in Nodes : ~OnCycle(f) =>
         \A d \in Nodes : f \in edges[d] => PosIn(out, d) < PosIn(out, f)

(***************************************************************************)
(* Properties of build_graph, checked under SpecGraph.                     *)
(***************************************************************************)
\* the path of a module: under the first root, in configured order, that
\* holds it; 0 if none does
FirstRootPath(mod) ==
  LET hits == {i \in 1..Len(cfg.module_roots) :
                 RootPath(cfg.module_roots[i], mod) \in onDisk}
  IN IF hits = {} THEN 0 ELSE RootPath(cfg.module_roots[MinOf(hits)], mod)

\* the modules named in the leading import block of a file
BlockModules(f) == Range(RequiresOf(TRUE, texts[f]))

\* C12: after build_graph, an edge d -> f exists only if d and f are nodes
\* and some module of the leading import block of f resolves, under the
\* first matching root, to d; the indegree of every node is the number of
\* distinct nodes with an edge to it; and no reference ends the run.
C12_GraphConstruction ==
  pc = "topo_init" =>
    /\ DOMAIN indeg = Nodes
    /\ \A d \in Nodes : \A f \in edges[d] :
         /\ f \in Nodes
         /\ \E mod \in BlockModules(f) : FirstRootPath(mod) = d
    /\ \A f \in Nodes : indeg[f] = Cardinality({d \in Nodes : f \in edges[d]})
    /\ err = ""
    /\ exitcode = -1

\* file 3 requires module 1 twice, module 1 is found under the first root
\* src/a as file 2 although src holds it too, and the one edge counts once
C12_Witness ==
  /\ pc = "topo_init"
  /\ cfg.module_roots = <<1, 0>>
  /\ onDisk = {1, 2, 3}
  /\ read_requires(TRUE, texts[3]) = <<1, 1>>
  /\ edges[2] = {3}
  /\ edges[1] = {}
  /\ indeg[3] = 1
====
